---- MODULE Spec2Model ----
(***************************************************************************)
(* The circuit evaluation engine (CircuitNode, Circuit, Util) and the      *)
(* sum-of-products SynthesisEngine of the logic gate simulator.            *)
(*                                                                         *)
(* Node objects live in `heap`, a function from object handles to the      *)
(* fields of a CircuitNode; the inputs and outputs arrays of a node hold   *)
(* handles, so that two objects with the same id stay different objects,   *)
(* as they are in the program.  `nodes` is Circuit.nodes: the handles of   *)
(* the Map's values in the Map's iteration order (the key of a value is    *)
(* its id).  The coordinates x and y of a node are never read by the       *)
(* engine and are left out.                                                *)
(***************************************************************************)
EXTENDS Integers, Sequences, FiniteSets, TLC

VARIABLES heap, nodes, ret, inputCount, outputs

vars == <<heap, nodes, ret, inputCount, outputs>>

(* ------------------------------ bounds --------------------------------- *)

\* number of node ids the editing specifications draw from
MaxNodes == 3
\* number of edges a graph-editing behaviour may hold at a time
MaxEdges == 3
\* number of edges a simulated circuit may hold at a time
MaxEvalEdges == 2
\* largest inputCount the synthesis specification draws
MaxInputCount == 2
\* largest inputCount of a function synthesized for its truth table alone
MaxTableInputs == 3
\* largest inputCount of a circuit the editor loads from the synthesis dialog
MaxLoadInputs == 1

(* ------------------------------ arrays --------------------------------- *)

\* the handle that stands for undefined (Map.get of a missing key)
Null == 0

\* Array.prototype.includes
Includes(s, x) == \E i \in 1..Len(s) : s[i] = x

\* Array.prototype.indexOf, 1-based; 0 stands for the -1 of a miss
IndexOf(s, x) ==
    IF Includes(s, x)
    THEN CHOOSE i \in 1..Len(s) : s[i] = x /\ \A j \in 1..(i - 1) : s[j] # x
    ELSE 0

\* Array.prototype.splice(index, 1)
Splice(s, i) == SubSeq(s, 1, i - 1) \o SubSeq(s, i + 1, Len(s))

\* 2^k
RECURSIVE Pow2(_)
Pow2(k) == IF k = 0 THEN 1 ELSE 2 * Pow2(k - 1)

\* (i >> k) & 1, for i >= 0
Bit(i, k) == (i \div Pow2(k)) % 2

\* TLC evaluates an argument when it is first read and keeps the value: a loop
\* reads its accumulator before each iteration, so that the evaluation of an
\* iteration does not nest the evaluation of all the iterations before it.
Strict(v) == v = v

\* list.forEach(x => acc = Op(acc, x))
RECURSIVE ForEach(_, _, _)
ForEach(Op(_, _), acc, list) ==
    IF Strict(acc) /\ list # <<>>
    THEN ForEach(Op, Op(acc, Head(list)), Tail(list))
    ELSE acc

\* the values i = 0, ..., n - 1 of for (let i = 0; i < n; i++)
Indices(n) == [i \in 1..n |-> i - 1]

(* ----------------------------- CircuitNode ----------------------------- *)

NodeType == {"AND", "OR", "NOT", "INPUT", "OUTPUT"}

\* the fields a constructor leaves: no edges, value false, label = type
NewNode(id, type) ==
    [id |-> id, type |-> type, label |-> type,
     inputs |-> <<>>, outputs |-> <<>>, value |-> FALSE]

\* the handle of the next object created
NewHandle(hp) == CHOOSE h \in 1..(Cardinality(DOMAIN hp) + 1) :
                    h \notin DOMAIN hp /\ \A g \in 1..(h - 1) : g \in DOMAIN hp

\* the heap after `new XGate(id, ...)`
New(hp, id, type) ==
    [h \in (DOMAIN hp) \cup {NewHandle(hp)} |->
        IF h \in DOMAIN hp THEN hp[h] ELSE NewNode(id, type)]

\* self.addInput(node)
addInput(hp, self, node) ==
    IF ~Includes(hp[self].inputs, node)
    THEN LET h1 == [hp EXCEPT ![self].inputs = Append(@, node)]
         IN  [h1 EXCEPT ![node].outputs = Append(@, self)]
    ELSE hp

\* a slip: the edge is taken out of self.inputs only
removeInputOneSided(hp, self, node) ==
    LET index == IndexOf(hp[self].inputs, node)
    IN  IF index # 0 THEN [hp EXCEPT ![self].inputs = Splice(@, index)] ELSE hp

\* self.removeInput(node)
removeInput(hp, self, node) ==
    LET index == IndexOf(hp[self].inputs, node)
    IN  IF index # 0
        THEN LET h1 == [hp EXCEPT ![self].inputs = Splice(@, index)]
                 outIndex == IndexOf(h1[node].outputs, self)
             IN  IF outIndex # 0
                 THEN [h1 EXCEPT ![node].outputs = Splice(@, outIndex)]
                 ELSE h1
        ELSE hp

\* InputNode.setValue(val)
setValue(hp, self, val) == [hp EXCEPT ![self].value = val]

\* a slip: an AND gate without inputs returns false, a NOT gate reads its
\* last input
computeSlipped(hp, node) ==
    LET ins == hp[node].inputs
    IN  CASE hp[node].type = "INPUT"  -> hp[node].value
          [] hp[node].type = "OUTPUT" ->
                IF Len(ins) > 0 THEN hp[ins[1]].value ELSE FALSE
          [] hp[node].type = "AND"    ->
                Len(ins) > 0 /\ \A i \in 1..Len(ins) : hp[ins[i]].value
          [] hp[node].type = "OR"     -> \E i \in 1..Len(ins) : hp[ins[i]].value
          [] hp[node].type = "NOT"    ->
                IF Len(ins) > 0 THEN ~hp[ins[Len(ins)]].value ELSE FALSE

\* node.compute(), by the class of the node
compute(hp, node) ==
    LET ins == hp[node].inputs
    IN  CASE hp[node].type = "INPUT"  -> hp[node].value
          [] hp[node].type = "OUTPUT" ->
                IF Len(ins) > 0 THEN hp[ins[1]].value ELSE FALSE
          [] hp[node].type = "AND"    -> \A i \in 1..Len(ins) : hp[ins[i]].value
          [] hp[node].type = "OR"     -> \E i \in 1..Len(ins) : hp[ins[i]].value
          [] hp[node].type = "NOT"    ->
                IF Len(ins) > 0 THEN ~hp[ins[1]].value ELSE FALSE

(* ------------------------------- Circuit ------------------------------- *)

\* a Circuit value: the Map and the objects it can reach
Circ(hp, ns) == [heap |-> hp, nodes |-> ns]

\* new Circuit()
EmptyCircuit == Circ(<<>>, <<>>)

\* the keys of this.nodes
Keys(c) == {c.heap[c.nodes[i]].id : i \in 1..Len(c.nodes)}

\* this.nodes.get(id)
Get(c, id) ==
    IF id \in Keys(c)
    THEN c.nodes[CHOOSE i \in 1..Len(c.nodes) : c.heap[c.nodes[i]].id = id]
    ELSE Null

\* this.nodes.set(node.id, node): a present key keeps its place in the order
addNode(c, node) ==
    LET id == c.heap[node].id
    IN  IF id \in Keys(c)
        THEN Circ(c.heap, [i \in 1..Len(c.nodes) |->
                              IF c.heap[c.nodes[i]].id = id THEN node ELSE c.nodes[i]])
        ELSE Circ(c.heap, Append(c.nodes, node))

\* [...list].forEach(inp => node.removeInput(inp))
DetachInputs(hp, node, list) ==
    ForEach(LAMBDA h, inp : removeInput(h, node, inp), hp, list)

\* a slip: node.outputs.forEach(...) without the copy: the array shrinks under
\* the iteration, which then steps over every second element
RECURSIVE LiveForEach(_, _, _)
LiveForEach(hp, node, i) ==
    IF ~Strict(hp) \/ i > Len(hp[node].outputs) THEN hp
    ELSE LiveForEach(removeInput(hp, hp[node].outputs[i], node), node, i + 1)

DetachOutputsLive(hp, node, list) == LiveForEach(hp, node, 1)

\* [...list].forEach(out => out.removeInput(node))
DetachOutputs(hp, node, list) ==
    ForEach(LAMBDA h, out : removeInput(h, out, node), hp, list)

\* this.nodes.delete(nodeId)
Delete(ns, node) == SelectSeq(ns, LAMBDA h : h # node)

removeNode(c, nodeId) ==
    LET node == Get(c, nodeId)
    IN  IF node = Null THEN c
        ELSE LET h1 == DetachInputs(c.heap, node, c.heap[node].inputs)
                 h2 == DetachOutputs(h1, node, h1[node].outputs)
             IN  Circ(h2, Delete(c.nodes, node))

\* a slip: const to = this.nodes.get(toId) || from
addConnectionDefaulting(c, fromId, toId) ==
    LET from == Get(c, fromId)
        to == IF Get(c, toId) # Null THEN Get(c, toId) ELSE from
    IN  IF from # Null /\ to # Null
        THEN Circ(addInput(c.heap, to, from), c.nodes)
        ELSE c

addConnection(c, fromId, toId) ==
    LET from == Get(c, fromId)
        to == Get(c, toId)
    IN  IF from # Null /\ to # Null
        THEN Circ(addInput(c.heap, to, from), c.nodes)
        ELSE c

(* ----------------------- Circuit.getEvaluationOrder -------------------- *)

\* An entry of the inDegree Map is <<n>> for the number n and <<>> for NaN;
\* a key the Map does not hold is outside the DOMAIN of the function.
NaN == <<>>

\* inDegree.set(key, val)
MapSet(m, key, val) ==
    [k \in (DOMAIN m) \cup {key} |-> IF k = key THEN val ELSE m[k]]

\* (inDegree.get(key) || 0) + 1
Incremented(m, key) ==
    IF key \in DOMAIN m /\ m[key] # NaN THEN <<m[key][1] + 1>> ELSE <<1>>

\* inDegree.get(key)! - 1: undefined - 1 and NaN - 1 are NaN
Decremented(m, key) ==
    IF key \in DOMAIN m /\ m[key] # NaN THEN <<m[key][1] - 1>> ELSE NaN

\* inDegree.get(key) === 0
IsZero(m, key) == key \in DOMAIN m /\ m[key] = <<0>>

\* this.nodes.forEach(node => inDegree.set(node.id, 0))
InitInDegree(c) == [k \in Keys(c) |-> <<0>>]

\* node.outputs.forEach(out => inDegree.set(out.id, (inDegree.get(out.id) || 0) + 1))
CountOutputs(hp, m, outs) ==
    ForEach(LAMBDA d, out : MapSet(d, hp[out].id, Incremented(d, hp[out].id)), m, outs)

\* the second this.nodes.forEach: every node's outputs are counted
CountAll(hp, m, ns) ==
    ForEach(LAMBDA d, node : CountOutputs(hp, d, hp[node].outputs), m, ns)

\* a slip: every node is queued, whatever its in-degree
EnqueueAll(c, m) == c.nodes

\* the third this.nodes.forEach: the nodes of in-degree 0, in Map order
Enqueue(c, m) == SelectSeq(c.nodes, LAMBDA h : IsZero(m, c.heap[h].id))

\* the body of u.outputs.forEach(v => ...): st holds the Map and the queue
RelaxOne(hp, st, v) ==
    LET m1 == MapSet(st.inDegree, hp[v].id, Decremented(st.inDegree, hp[v].id))
    IN  [inDegree |-> m1,
         queue |-> IF IsZero(m1, hp[v].id) THEN Append(st.queue, v) ELSE st.queue]

\* u.outputs.forEach(v => ...)
Relax(hp, st, outs) == ForEach(LAMBDA t, v : RelaxOne(hp, t, v), st, outs)

\* a slip: const u = queue.pop()!, the queue used as a stack
RECURSIVE ProcessStack(_, _, _)
ProcessStack(hp, st, sorted) ==
    IF ~Strict(st) \/ st.queue = <<>> THEN sorted
    ELSE LET u == st.queue[Len(st.queue)]
         IN  ProcessStack(hp,
                          Relax(hp, [inDegree |-> st.inDegree,
                                     queue |-> SubSeq(st.queue, 1, Len(st.queue) - 1)],
                                hp[u].outputs),
                          Append(sorted, u))

\* while (queue.length > 0) { ... }; the result is `sorted`
RECURSIVE ProcessQueue(_, _, _)
ProcessQueue(hp, st, sorted) ==
    IF ~Strict(st) \/ st.queue = <<>> THEN sorted
    ELSE LET u == Head(st.queue)
         IN  ProcessQueue(hp,
                          Relax(hp, [inDegree |-> st.inDegree, queue |-> Tail(st.queue)],
                                hp[u].outputs),
                          Append(sorted, u))

\* a slip: sorted.length > this.nodes.size
LengthExceeds(sorted, c) == Len(sorted) > Len(c.nodes)

\* sorted.length !== this.nodes.size
LengthMismatch(sorted, c) == Len(sorted) # Len(c.nodes)

\* [raised |-> TRUE] stands for throw new CycleDetectedError()
getEvaluationOrder(c) ==
    LET m == CountAll(c.heap, InitInDegree(c), c.nodes)
        sorted == ProcessQueue(c.heap, [inDegree |-> m, queue |-> Enqueue(c, m)], <<>>)
    IN  IF LengthMismatch(sorted, c)
        THEN [raised |-> TRUE, sorted |-> <<>>]
        ELSE [raised |-> FALSE, sorted |-> sorted]

(* --------------------------- Circuit.evaluate -------------------------- *)

\* node.value = node.compute()
WriteValue(hp, node) == [hp EXCEPT ![node].value = compute(hp, node)]

\* for (const node of order) { if (node instanceof InputNode) continue; ... }
EvaluateInOrder(hp, order) ==
    ForEach(LAMBDA h, node : IF h[node].type = "INPUT" THEN h ELSE WriteValue(h, node),
            hp, order)

\* a slip: the nodes are computed in the Map's order, not in the sorted order
evaluateInMapOrder(c) ==
    LET order == getEvaluationOrder(c)
    IN  IF order.raised
        THEN [raised |-> TRUE, heap |-> c.heap]
        ELSE [raised |-> FALSE, heap |-> EvaluateInOrder(c.heap, c.nodes)]

\* a slip: the catch block logs the CycleDetectedError and does not rethrow it
evaluateSwallowing(c) ==
    LET order == getEvaluationOrder(c)
    IN  IF order.raised
        THEN [raised |-> FALSE, heap |-> c.heap]
        ELSE [raised |-> FALSE, heap |-> EvaluateInOrder(c.heap, order.sorted)]

\* the CycleDetectedError is rethrown; no other error can occur in the try
evaluate(c) ==
    LET order == getEvaluationOrder(c)
    IN  IF order.raised
        THEN [raised |-> TRUE, heap |-> c.heap]
        ELSE [raised |-> FALSE, heap |-> EvaluateInOrder(c.heap, order.sorted)]

(* ------------------------- Circuit.getTruthTable ----------------------- *)

\* Util.getNodesByType(circuit, type)
getNodesByType(c, type) == SelectSeq(c.nodes, LAMBDA h : c.heap[h].type = type)

\* a slip: (i >> (inputs.length - 1 - idx)) & 1, the high bit for the first input
SetInputStatesHighBitFirst(hp, inputs, i) ==
    ForEach(LAMBDA h, idx : setValue(h, inputs[idx + 1],
                                     Bit(i, Len(inputs) - 1 - idx) = 1),
            hp, Indices(Len(inputs)))

\* inputs.forEach((inp, idx) => inp.setValue(!!((i >> idx) & 1))), idx from 0
SetInputStates(hp, inputs, i) ==
    ForEach(LAMBDA h, idx : setValue(h, inputs[idx + 1], Bit(i, idx) = 1),
            hp, Indices(Len(inputs)))

\* the row recorded after a successful evaluate()
Row(hp, inputs, outs) ==
    [inputs      |-> [k \in {hp[inputs[j]].id : j \in 1..Len(inputs)} |->
                        hp[CHOOSE h \in {inputs[j] : j \in 1..Len(inputs)} : hp[h].id = k].value],
     outputs     |-> [k \in {hp[outs[j]].id : j \in 1..Len(outs)} |->
                        hp[CHOOSE h \in {outs[j] : j \in 1..Len(outs)} : hp[h].id = k].value],
     inputLabels |-> [k \in {hp[inputs[j]].id : j \in 1..Len(inputs)} |->
                        hp[CHOOSE h \in {inputs[j] : j \in 1..Len(inputs)} : hp[h].id = k].label]]

\* 1 << inputs.length (below the 32-bit wrap of <<, which needs 31 INPUT nodes)
permutations(inputs) == Pow2(Len(inputs))

\* for (let i = 0; i < permutations; i++) { ... }: the table returned and the
\* heap the call leaves
RECURSIVE TruthTableLoop(_, _, _, _, _)
TruthTableLoop(c, inputs, outs, i, results) ==
    IF ~Strict(c) \/ i >= permutations(inputs) THEN [results |-> results, heap |-> c.heap]
    ELSE LET h1 == SetInputStates(c.heap, inputs, i)
             e == evaluate(Circ(h1, c.nodes))
         IN  IF e.raised
             THEN [results |-> <<>>, heap |-> h1]
             ELSE TruthTableLoop(Circ(e.heap, c.nodes), inputs, outs, i + 1,
                                 Append(results, Row(e.heap, inputs, outs)))

\* a slip: the rows are computed on a copy and the circuit keeps its values
getTruthTableOnCopy(c) ==
    [results |-> TruthTableLoop(c, getNodesByType(c, "INPUT"),
                                getNodesByType(c, "OUTPUT"), 0, <<>>).results,
     heap |-> c.heap]

getTruthTable(c) ==
    TruthTableLoop(c, getNodesByType(c, "INPUT"), getNodesByType(c, "OUTPUT"), 0, <<>>)

(* -------------------- SynthesisEngine.generateCircuit ------------------ *)

\* const node = new XGate(id, ...); circuit.addNode(node)
Create(c, id, type) == addNode(Circ(New(c.heap, id, type), c.nodes), NewHandle(c.heap))

\* `INPUT_${i}`
InputId(i) == "INPUT_" \o ToString(i)

\* `AND_${mIdx}`
AndId(mIdx) == "AND_" \o ToString(mIdx)

\* a slip: `NOT_${bit}`, one id for the NOT gates of all minterms
NotIdOfBit(mIdx, bit) == "NOT_" \o ToString(bit)

\* `NOT_${mIdx}_${bit}`
NotId(mIdx, bit) == "NOT_" \o ToString(mIdx) \o "_" \o ToString(bit)

\* 1. Create Inputs
CreateInputs(c, n) ==
    ForEach(LAMBDA d, i : Create(d, InputId(i), "INPUT"), c, Indices(n))

\* 2. the row indices idx (from 0) with outputs[idx] true, ascending;
\*    the array `outs` is the sequence outs[1..], outs[idx + 1] being outputs[idx]
RECURSIVE Minterms(_, _)
Minterms(outs, idx) ==
    IF idx >= Len(outs) THEN <<>>
    ELSE (IF outs[idx + 1] THEN <<idx>> ELSE <<>>) \o Minterms(outs, idx + 1)

\* a slip: the low bit read for Input 0
IsOneLowBitFirst(rowIdx, n, bit) == Bit(rowIdx, bit) = 1

\* (rowIdx >> (inputCount - 1 - bit)) & 1
IsOne(rowIdx, n, bit) == Bit(rowIdx, n - 1 - bit) = 1

\* a slip: the NOT gate of a variable is made once and reused by later minterms
ConnectLiteralReusingNot(c, rowIdx, mIdx, n, bit) ==
    IF IsOne(rowIdx, n, bit)
    THEN addConnection(c, InputId(bit), AndId(mIdx))
    ELSE LET c1 == IF Get(c, NotId(0, bit)) = Null
                   THEN addConnection(Create(c, NotId(0, bit), "NOT"),
                                      InputId(bit), NotId(0, bit))
                   ELSE c
         IN  addConnection(c1, NotId(0, bit), AndId(mIdx))

\* the body of for (let bit = 0; bit < inputCount; bit++) { ... }
ConnectLiteral(c, rowIdx, mIdx, n, bit) ==
    IF IsOne(rowIdx, n, bit)
    THEN addConnection(c, InputId(bit), AndId(mIdx))
    ELSE LET c1 == Create(c, NotId(mIdx, bit), "NOT")
             c2 == addConnection(c1, InputId(bit), NotId(mIdx, bit))
         IN  addConnection(c2, NotId(mIdx, bit), AndId(mIdx))

\* the body of minterms.forEach((rowIdx, mIdx) => { ... })
CreateAndGate(c, rowIdx, mIdx, n) ==
    ForEach(LAMBDA d, bit : ConnectLiteral(d, rowIdx, mIdx, n, bit),
            Create(c, AndId(mIdx), "AND"), Indices(n))

\* 3. Create AND gates for each minterm, mIdx from 0
CreateAndGates(c, minterms, n) ==
    ForEach(LAMBDA d, mIdx : CreateAndGate(d, minterms[mIdx + 1], mIdx, n),
            c, Indices(Len(minterms)))

\* a slip: circuit.addConnection(g.id, g.id)
ConnectAndGatesToThemselves(c, k) ==
    ForEach(LAMBDA d, mIdx : addConnection(d, AndId(mIdx), AndId(mIdx)), c, Indices(k))

\* andGates.forEach(g => circuit.addConnection(g.id, orGate.id))
ConnectAndGates(c, k) ==
    ForEach(LAMBDA d, mIdx : addConnection(d, AndId(mIdx), "OR_FINAL"), c, Indices(k))

\* a slip: without minterms the OUTPUT node is fed by the first input
generateCircuitWiredOutput(n, outs) ==
    LET c0 == CreateInputs(EmptyCircuit, n)
        minterms == Minterms(outs, 0)
    IN  IF Len(minterms) = 0
        THEN addConnection(Create(c0, "OUTPUT_FINAL", "OUTPUT"), InputId(0), "OUTPUT_FINAL")
        ELSE LET c1 == CreateAndGates(c0, minterms, n)
                 c2 == ConnectAndGates(Create(c1, "OR_FINAL", "OR"), Len(minterms))
             IN  addConnection(Create(c2, "OUTPUT", "OUTPUT"), "OR_FINAL", "OUTPUT")

generateCircuit(n, outs) ==
    LET c0 == CreateInputs(EmptyCircuit, n)
        minterms == Minterms(outs, 0)
    IN  IF Len(minterms) = 0
        THEN Create(c0, "OUTPUT_FINAL", "OUTPUT")
        ELSE LET c1 == CreateAndGates(c0, minterms, n)
                 c2 == ConnectAndGates(Create(c1, "OR_FINAL", "OR"), Len(minterms))
             IN  addConnection(Create(c2, "OUTPUT", "OUTPUT"), "OR_FINAL", "OUTPUT")

(* ------------------------------ the calls ------------------------------ *)

\* the circuit of the current state
This == Circ(heap, nodes)

\* An object no reference leads to any more is gone: the heap keeps the
\* objects reachable from the Map through inputs and outputs arrays.
RECURSIVE Reachable(_, _)
Reachable(hp, seen) ==
    LET more == UNION {{hp[h].inputs[i] : i \in 1..Len(hp[h].inputs)} \cup
                       {hp[h].outputs[i] : i \in 1..Len(hp[h].outputs)} : h \in seen}
    IN  IF more \subseteq seen THEN seen ELSE Reachable(hp, seen \cup more)

Collect(c) ==
    LET live == Reachable(c.heap, {c.nodes[i] : i \in 1..Len(c.nodes)})
    IN  Circ([h \in live |-> c.heap[h]], c.nodes)

\* what the last call returned or threw
Returned(op, raised, val) == [op |-> op, raised |-> raised, val |-> val]

\* the number of edges held by the objects of a heap
RECURSIVE EdgeCount(_, _)
EdgeCount(hp, hs) ==
    IF hs = {} THEN 0
    ELSE LET h == CHOOSE x \in hs : TRUE
         IN  Len(hp[h].inputs) + EdgeCount(hp, hs \ {h})

\* the bound on the edges of the state a step leads to
EdgesWithin(k) == EdgeCount(heap', DOMAIN heap') <= k

\* the bound on the nodes of the state a step leads to
NodesWithin(k) == Len(nodes') <= k

\* circuit.addNode(new XGate(id, ...))
AddNode(id, type) ==
    LET c == Collect(Create(This, id, type))
    IN  /\ heap' = c.heap
        /\ nodes' = c.nodes
        /\ ret' = Returned("addNode", FALSE, <<>>)
        /\ UNCHANGED <<inputCount, outputs>>

\* circuit.removeNode(id)
RemoveNode(id) ==
    LET c == Collect(removeNode(This, id))
    IN  /\ heap' = c.heap
        /\ nodes' = c.nodes
        /\ ret' = Returned("removeNode", FALSE, <<>>)
        /\ UNCHANGED <<inputCount, outputs>>

\* circuit.addConnection(fromId, toId)
AddConnection(fromId, toId) ==
    LET c == addConnection(This, fromId, toId)
    IN  /\ heap' = c.heap
        /\ nodes' = c.nodes
        /\ ret' = Returned("addConnection", FALSE, <<>>)
        /\ UNCHANGED <<inputCount, outputs>>

\* to.removeInput(from), on two nodes of the circuit
RemoveInput(toId, fromId) ==
    /\ Get(This, toId) # Null
    /\ Get(This, fromId) # Null
    /\ heap' = removeInput(heap, Get(This, toId), Get(This, fromId))
    /\ ret' = Returned("removeInput", FALSE, <<>>)
    /\ UNCHANGED <<nodes, inputCount, outputs>>

\* (node as InputNode).setValue(val), on an INPUT node of the circuit
SetValue(id, val) ==
    /\ Get(This, id) # Null
    /\ heap[Get(This, id)].type = "INPUT"
    /\ heap' = setValue(heap, Get(This, id), val)
    /\ ret' = Returned("setValue", FALSE, <<>>)
    /\ UNCHANGED <<nodes, inputCount, outputs>>

\* circuit.getEvaluationOrder()
GetEvaluationOrder ==
    LET r == getEvaluationOrder(This)
    IN  /\ ret' = Returned("getEvaluationOrder", r.raised, r.sorted)
        /\ UNCHANGED <<heap, nodes, inputCount, outputs>>

\* circuit.evaluate()
Evaluate ==
    LET r == evaluate(This)
    IN  /\ heap' = r.heap
        /\ ret' = Returned("evaluate", r.raised, <<>>)
        /\ UNCHANGED <<nodes, inputCount, outputs>>

\* circuit.getTruthTable()
GetTruthTable ==
    LET r == getTruthTable(This)
    IN  /\ heap' = r.heap
        /\ ret' = Returned("getTruthTable", FALSE, r.results)
        /\ UNCHANGED <<nodes, inputCount, outputs>>

\* const newCircuit = SynthesisEngine.generateCircuit(inputCount, outputs)
GenerateCircuit ==
    LET c == generateCircuit(inputCount, outputs)
    IN  /\ ret.op = "new"
        /\ heap' = c.heap
        /\ nodes' = c.nodes
        /\ ret' = Returned("generateCircuit", FALSE, <<>>)
        /\ UNCHANGED <<inputCount, outputs>>

\* node.compute(), on a node of the circuit: the result is returned and, as no
\* compute body holds an assignment, nothing is written
Compute(id) ==
    /\ Get(This, id) # Null
    /\ ret' = Returned("compute", FALSE,
                       [node |-> Get(This, id), result |-> compute(heap, Get(This, id))])
    /\ UNCHANGED <<heap, nodes, inputCount, outputs>>

(* ----------------------- CanvasManager (the editor) -------------------- *)

\* the kinds the editor's switch names; 'XOR' is not a NodeType of the engine
SidebarTypes == NodeType \cup {"XOR"}

\* createNode(type, x, y): the engine exports no XorGate, so that
\* `new XorGate(id, x, y)` throws where the build lets the editor load at all;
\* a type the switch does not name returns before addNode
createNode(c, id, type) ==
    IF type \in NodeType THEN [raised |-> FALSE, circuit |-> Create(c, id, type)]
    ELSE IF type = "XOR" THEN [raised |-> TRUE, circuit |-> c]
    ELSE [raised |-> FALSE, circuit |-> c]

\* updateSimulation(): evaluate(), the CycleDetectedError caught and shown
updateSimulation(c) ==
    LET e == evaluate(c)
    IN  [heap |-> e.heap,
         status |-> IF e.raised THEN "Error: Feedback Loop Detected!" ELSE ""]

\* a component of the sidebar dropped on the canvas: handleDrop, createNode
CreateNode(id, type) ==
    LET r == createNode(This, id, type)
        c == Collect(r.circuit)
    IN  /\ heap' = c.heap
        /\ nodes' = c.nodes
        /\ ret' = Returned("createNode", r.raised, type)
        /\ UNCHANGED <<inputCount, outputs>>

\* a slip: the test this.wireStartNode !== targetNode is left out
WireEndUnguarded(fromId, toId) ==
    LET from == Get(This, fromId)
        to == Get(This, toId)
    IN  /\ from # Null /\ to # Null
        /\ heap[from].type # "OUTPUT"
        /\ heap[to].type # "INPUT"
        /\ LET u == updateSimulation(addConnection(This, fromId, toId))
           IN  /\ heap' = u.heap
               /\ ret' = Returned("handleWireEnd", FALSE, u.status)
        /\ UNCHANGED <<nodes, inputCount, outputs>>

\* handleWireEnd(e, targetNode) of a wire started at the output pin of
\* wireStartNode: an OUTPUT has no output pin and an INPUT no input pin
WireEnd(fromId, toId) ==
    LET from == Get(This, fromId)
        to == Get(This, toId)
    IN  /\ from # Null /\ to # Null
        /\ heap[from].type # "OUTPUT"
        /\ heap[to].type # "INPUT"
        /\ IF from # to
           THEN LET u == updateSimulation(addConnection(This, fromId, toId))
                IN  /\ heap' = u.heap
                    /\ ret' = Returned("handleWireEnd", FALSE, u.status)
           ELSE /\ heap' = heap
                /\ ret' = Returned("handleWireEnd", FALSE, "")
        /\ UNCHANGED <<nodes, inputCount, outputs>>

\* the click handler of an INPUT node: the value toggled, updateSimulation()
ClickInput(id) ==
    LET node == Get(This, id)
    IN  /\ node # Null
        /\ heap[node].type = "INPUT"
        /\ LET u == updateSimulation(Circ(setValue(heap, node, ~heap[node].value), nodes))
           IN  /\ heap' = u.heap
               /\ ret' = Returned("click", FALSE, u.status)
        /\ UNCHANGED <<nodes, inputCount, outputs>>

\* the Build button of the synthesis dialog: generateCircuit(count, targets),
\* then loadCircuit(newCircuit): clearAll(), the circuit replaced by the new
\* one, updateSimulation()
LoadCircuit(count, targets) ==
    LET c == generateCircuit(count, targets)
        u == updateSimulation(c)
    IN  /\ heap' = u.heap
        /\ nodes' = c.nodes
        /\ ret' = Returned("loadCircuit", FALSE, u.status)
        /\ UNCHANGED <<inputCount, outputs>>

\* the Clear button: clearAll(), this.circuit = new Circuit()
ClearAll ==
    /\ heap' = <<>>
    /\ nodes' = <<>>
    /\ ret' = Returned("clearAll", FALSE, <<>>)
    /\ UNCHANGED <<inputCount, outputs>>

(* --------------------------- specifications ---------------------------- *)

\* the ids a caller of the editing calls draws from
IdOf(i) == "N" \o ToString(i)
Ids == {IdOf(i) : i \in 1..MaxNodes}

\* the id a caller that keeps ids unique gives its next node: ids are opaque to
\* the engine, so the first id not in use stands for any id not in use
FreshIds == {IdOf(i) : i \in {j \in 1..MaxNodes :
                IdOf(j) \notin Keys(This) /\ \A k \in 1..(j - 1) : IdOf(k) \in Keys(This)}}

\* the node class the graph-editing specifications construct: addNode,
\* removeNode, addConnection and getEvaluationOrder never read the type
EditTypes == {"AND"}

\* a fresh Circuit, nothing synthesized
Init ==
    /\ heap = <<>>
    /\ nodes = <<>>
    /\ ret = Returned("new", FALSE, <<>>)
    /\ inputCount = 0
    /\ outputs = <<>>

\* editing the graph, by a caller that keeps ids unique within the circuit
Next ==
    \/ \E id \in FreshIds, type \in EditTypes : AddNode(id, type)
    \/ \E id \in Ids : RemoveNode(id)
    \/ \E fromId \in Ids, toId \in Ids :
          AddConnection(fromId, toId) /\ EdgesWithin(MaxEdges)
    \/ \E toId \in Ids, fromId \in Ids : RemoveInput(toId, fromId)
    \/ GetEvaluationOrder

Spec == Init /\ [][Next]_vars

\* editing the graph, by a caller that also passes addNode an id already present
NextOverwrite ==
    \/ \E id \in FreshIds \cup Keys(This), type \in EditTypes :
          Cardinality(DOMAIN heap) < MaxNodes /\ AddNode(id, type)
    \/ \E id \in Ids : RemoveNode(id)
    \/ \E fromId \in Ids, toId \in Ids :
          AddConnection(fromId, toId) /\ EdgesWithin(MaxEdges)
    \/ \E toId \in Ids, fromId \in Ids : RemoveInput(toId, fromId)
    \/ GetEvaluationOrder

SpecOverwrite == Init /\ [][NextOverwrite]_vars

\* building a circuit of any node classes and simulating it
NextEval ==
    \/ \E id \in FreshIds, type \in NodeType : AddNode(id, type)
    \/ \E fromId \in Ids, toId \in Ids :
          AddConnection(fromId, toId) /\ EdgesWithin(MaxEvalEdges)
    \/ \E id \in Ids, val \in BOOLEAN : SetValue(id, val)
    \/ GetEvaluationOrder
    \/ Evaluate
    \/ GetTruthTable

SpecEval == Init /\ [][NextEval]_vars

\* the arguments of generateCircuit: outputs has length 2^inputCount
InitSynth ==
    /\ heap = <<>>
    /\ nodes = <<>>
    /\ ret = Returned("new", FALSE, <<>>)
    /\ inputCount \in 1..MaxInputCount
    /\ outputs \in [1..Pow2(inputCount) -> BOOLEAN]

\* synthesizing a circuit and simulating it
NextSynth ==
    \/ GenerateCircuit
    \/ \E i \in 0..(inputCount - 1), val \in BOOLEAN :
          ret.op # "new" /\ SetValue(InputId(i), val)
    \/ ret.op # "new" /\ Evaluate
    \/ ret.op # "new" /\ GetTruthTable

SpecSynth == InitSynth /\ [][NextSynth]_vars

\* building nodes of any class, feeding them from INPUT nodes and computing them
NextCompute ==
    \/ \E id \in FreshIds, type \in NodeType : AddNode(id, type)
    \/ \E fromId \in Ids, toId \in Ids :
          AddConnection(fromId, toId) /\ EdgesWithin(MaxEvalEdges)
    \/ \E id \in Ids, val \in BOOLEAN : SetValue(id, val)
    \/ \E id \in Ids : Compute(id)

SpecCompute == Init /\ [][NextCompute]_vars

\* the events of the canvas: a drop, a wire end, a click on an INPUT, the Build,
\* Clear and Truth Table buttons
NextEditor ==
    \/ \E id \in FreshIds, type \in SidebarTypes :
          CreateNode(id, type) /\ NodesWithin(MaxNodes)
    \/ \E fromId \in Keys(This), toId \in Keys(This) :
          WireEnd(fromId, toId) /\ EdgesWithin(MaxEdges)
    \/ \E id \in Keys(This) : ClickInput(id)
    \/ \E count \in 1..MaxLoadInputs :
          \E targets \in [1..Pow2(count) -> BOOLEAN] : LoadCircuit(count, targets)
    \/ ClearAll
    \/ GetTruthTable

SpecEditor == Init /\ [][NextEditor]_vars

\* editing a graph of nodes that hold values, by a caller that keeps ids unique
NextRemove ==
    \/ \E id \in FreshIds : AddNode(id, "INPUT")
    \/ \E id \in Ids : RemoveNode(id)
    \/ \E fromId \in Ids, toId \in Ids :
          AddConnection(fromId, toId) /\ EdgesWithin(MaxEdges)
    \/ \E id \in Ids, val \in BOOLEAN : SetValue(id, val)

SpecRemove == Init /\ [][NextRemove]_vars

\* the arguments of generateCircuit, for a circuit that is only tabulated
InitTable ==
    /\ heap = <<>>
    /\ nodes = <<>>
    /\ ret = Returned("new", FALSE, <<>>)
    /\ inputCount \in 1..MaxTableInputs
    /\ outputs \in [1..Pow2(inputCount) -> BOOLEAN]

\* synthesizing a circuit and asking for its truth table
NextTable ==
    \/ GenerateCircuit
    \/ ret.op # "new" /\ GetTruthTable

SpecTable == InitTable /\ [][NextTable]_vars

(* ------------------------- the graph of a circuit ---------------------- *)

\* the objects a set of objects reaches along outputs arrays, in 0 or more steps
RECURSIVE Downstream(_, _)
Downstream(hp, seen) ==
    LET more == UNION {{hp[h].outputs[i] : i \in 1..Len(hp[h].outputs)} : h \in seen}
    IN  IF more \subseteq seen THEN seen ELSE Downstream(hp, seen \cup more)

\* a node of the Map lies on a directed cycle of edges
HasCycle(c) ==
    \E i \in 1..Len(c.nodes) :
        c.nodes[i] \in Downstream(c.heap,
            {c.heap[c.nodes[i]].outputs[j] : j \in 1..Len(c.heap[c.nodes[i]].outputs)})

\* the number of places of a list that hold x
Occurrences(s, x) == Cardinality({i \in 1..Len(s) : s[i] = x})

\* the place of an object in a list of distinct objects
PlaceOf(s, x) == CHOOSE i \in 1..Len(s) : s[i] = x

(* ------------------------ synthesis and simulation --------------------- *)

\* the OUTPUT node of a synthesized circuit (there is one)
OutputNode == getNodesByType(This, "OUTPUT")[1]

\* the output value a row of a truth table records (a synthesized circuit has
\* one OUTPUT node, so the row holds one output)
OutputOfRow(row) == row.outputs[CHOOSE k \in DOMAIN row.outputs : TRUE]

\* the integer whose most-significant bit is INPUT_0's value and whose
\* least-significant bit is INPUT_{n-1}'s value
RECURSIVE AssignmentIndex(_)
AssignmentIndex(k) ==
    IF k >= inputCount THEN 0
    ELSE (IF heap[Get(This, InputId(k))].value THEN Pow2(inputCount - 1 - k) ELSE 0)
         + AssignmentIndex(k + 1)

\* i with its n bits written in reverse order
RECURSIVE ReverseBits(_, _)
ReverseBits(i, n) ==
    IF n = 0 THEN 0 ELSE (i % 2) * Pow2(n - 1) + ReverseBits(i \div 2, n - 1)

\* C1: the truth table of a synthesized circuit has 2^inputCount rows and the
\* output recorded in row i is outputs[i], for every i.
C1_RoundTrip ==
    ret.op = "getTruthTable" =>
        /\ Len(ret.val) = Pow2(inputCount)
        /\ \A i \in 0..(Pow2(inputCount) - 1) :
              OutputOfRow(ret.val[i + 1]) = outputs[i + 1]

\* C2: after evaluate() on a synthesized circuit the OUTPUT node's value is
\* outputs[i], i being the integer the INPUT values spell, INPUT_0 first (its
\* most-significant bit) and INPUT_{n-1} last.
C2_EvaluateMatchesOutputs ==
    ret.op = "evaluate" =>
        /\ ~ret.raised
        /\ Len(getNodesByType(This, "OUTPUT")) = 1
        /\ heap[OutputNode].value = outputs[AssignmentIndex(0) + 1]

\* C2 witness: two inputs set to 1, 0 (index 2), evaluated, and the function is
\* true there and false at the mirrored index 1
C2_Witness ==
    /\ ret.op = "evaluate"
    /\ inputCount = 2
    /\ heap[Get(This, InputId(0))].value
    /\ ~heap[Get(This, InputId(1))].value
    /\ outputs[3] /\ ~outputs[2]
    /\ heap[OutputNode].value

(* ----------------------------- truth tables ---------------------------- *)

\* the INPUT nodes of the circuit, in node-insertion order
InputNodes == getNodesByType(This, "INPUT")

\* C3: on an acyclic circuit with n INPUT nodes getTruthTable() returns 2^n
\* rows, and row i records for the k-th INPUT node (k = 0 first) bit n-1-k of i:
\* the most-significant bit belongs to the first INPUT node.
C3_RowsMostSignificantFirst ==
    (ret.op = "getTruthTable" /\ ~HasCycle(This)) =>
        /\ Len(ret.val) = Pow2(Len(InputNodes))
        /\ \A i \in 0..(Pow2(Len(InputNodes)) - 1) :
              \A k \in 0..(Len(InputNodes) - 1) :
                  ret.val[i + 1].inputs[heap[InputNodes[k + 1]].id]
                      = (Bit(i, Len(InputNodes) - 1 - k) = 1)

(* --------------------------- evaluation order -------------------------- *)

C5_CycleRaisesAndKeepsValues ==
    [][(HasCycle(This) /\ ret'.op \in {"getEvaluationOrder", "evaluate"}) =>
            (ret'.raised /\ heap' = heap /\ nodes' = nodes)]_vars

\* C5 witness: evaluate() raised on a circuit in which a gate holds the value
\* true from an evaluation made before the cycle was closed
C5_Witness ==
    /\ ret.op = "evaluate"
    /\ ret.raised
    /\ HasCycle(This)
    /\ \E i \in 1..Len(nodes) :
          heap[nodes[i]].type # "INPUT" /\ heap[nodes[i]].value

\* C6: after a successful evaluate() on an acyclic circuit every non-INPUT
\* node's value is its compute() on the values the call leaves, and every INPUT
\* node's value is the one it had before the call.
C6_EvaluateIsConsistent ==
    [][(~HasCycle(This) /\ ret'.op = "evaluate") =>
            /\ ~ret'.raised
            /\ nodes' = nodes
            /\ \A i \in 1..Len(nodes) :
                  IF heap[nodes[i]].type = "INPUT"
                  THEN heap'[nodes[i]] = heap[nodes[i]]
                  ELSE heap'[nodes[i]].value = compute(heap', nodes[i])]_vars

\* C6 witness: evaluated, and a node inserted before the node that feeds it
\* holds true, which it can only have read from the later node's new value
C6_Witness ==
    /\ ret.op = "evaluate"
    /\ ~ret.raised
    /\ \E i \in 1..Len(nodes) : \E j \in (i + 1)..Len(nodes) :
          /\ heap[nodes[j]].type # "INPUT"
          /\ Includes(heap[nodes[i]].inputs, nodes[j])
          /\ heap[nodes[i]].value
          /\ heap[nodes[i]].type = "OUTPUT"
          /\ heap[nodes[j]].value

(* ------------------------------- the edges ----------------------------- *)

\* C7: for all nodes A and B, A occurs in B.inputs as often as B occurs in
\* A.outputs, and at most once.
C7_EdgeSymmetry ==
    \A a \in DOMAIN heap : \A b \in DOMAIN heap :
        /\ Occurrences(heap[b].inputs, a) = Occurrences(heap[a].outputs, b)
        /\ Occurrences(heap[b].inputs, a) <= 1

\* C7 witness: the first node was removed, and the two nodes left hold a
\* self-loop and an edge between them
C7_Witness ==
    /\ ret.op = "removeNode"
    /\ Len(nodes) = 2
    /\ heap[nodes[1]].id = IdOf(2)
    /\ \E i \in 1..2 : Includes(heap[nodes[i]].inputs, nodes[i])
    /\ \E i \in 1..2 : Includes(heap[nodes[i]].inputs, nodes[3 - i])

\* C8: every node in the inputs or outputs of a node of the Map is the node
\* the Map stores under its id.
C8_NoDanglingEdges ==
    \A i \in 1..Len(nodes) :
        /\ \A j \in 1..Len(heap[nodes[i]].inputs) :
              Get(This, heap[heap[nodes[i]].inputs[j]].id) = heap[nodes[i]].inputs[j]
        /\ \A j \in 1..Len(heap[nodes[i]].outputs) :
              Get(This, heap[heap[nodes[i]].outputs[j]].id) = heap[nodes[i]].outputs[j]

\* C9: addConnection(fromId, toId) with fromId or toId not a key of the Map
\* does not throw and leaves the Map, every inputs and outputs array and every
\* value as they were.
C9_MissingEndpointIsNoOp ==
    [][\A fromId \in Ids, toId \in Ids :
          (AddConnection(fromId, toId)
              /\ (fromId \notin Keys(This) \/ toId \notin Keys(This)))
          => (heap' = heap /\ nodes' = nodes /\ ~ret'.raised)]_vars

\* C9 witness: addConnection returned on a circuit of two nodes, one of them
\* holding true, and there is no edge: two present ids would have made one
C9_Witness ==
    /\ ret.op = "addConnection"
    /\ Len(nodes) = 2
    /\ EdgeCount(heap, DOMAIN heap) = 0
    /\ \E i \in 1..2 : heap[nodes[i]].value

\* C10: on a circuit with a directed cycle getTruthTable() does not raise and
\* returns the empty list, whatever the number of INPUT nodes.
C10_CyclicTableIsEmpty ==
    (ret.op = "getTruthTable" /\ HasCycle(This)) => (~ret.raised /\ ret.val = <<>>)

\* C10 witness: the table of a circuit with two INPUT nodes and a cycle
C10_Witness ==
    /\ ret.op = "getTruthTable"
    /\ HasCycle(This)
    /\ Len(InputNodes) = 2
    /\ ret.val = <<>>

(* ------------------------- calls that fail ----------------------------- *)

\* C11: getTruthTable() on a circuit with a directed cycle, which fails and
\* returns the empty table, leaves every node, the INPUT nodes included, with
\* the value it had before the call.
C11_FailedTableKeepsValues ==
    [][(HasCycle(This) /\ ret'.op = "getTruthTable") =>
            \A h \in DOMAIN heap : heap'[h].value = heap[h].value]_vars

(* ------------------------------- compute ------------------------------- *)

\* the places of a node's inputs array that hold a node whose value is true
TrueInputs(node) ==
    {i \in 1..Len(heap[node].inputs) : heap[heap[node].inputs[i]].value}

\* the documented table of compute(), by node kind
DocumentedValue(node) ==
    CASE heap[node].type = "AND" ->
             Cardinality(TrueInputs(node)) = Len(heap[node].inputs)
      [] heap[node].type = "OR" -> Cardinality(TrueInputs(node)) >= 1
      [] heap[node].type = "NOT" ->
             Len(heap[node].inputs) >= 1 /\ 1 \notin TrueInputs(node)
      [] heap[node].type = "OUTPUT" -> 1 \in TrueInputs(node)
      [] heap[node].type = "INPUT" -> heap[node].value

\* C12: compute() returns the documented value of the node's kind for every
\* number of inputs and every assignment of their values, and leaves every
\* node's value, and everything else, as it was.
C12_ComputeMatchesTable ==
    [][ret'.op = "compute" =>
            /\ ret'.val.result = DocumentedValue(ret'.val.node)
            /\ heap' = heap
            /\ nodes' = nodes]_vars

\* C12 witness: a NOT gate with two inputs, the first false and the second
\* true, was computed and returned true
C12_Witness ==
    /\ ret.op = "compute"
    /\ heap[ret.val.node].type = "NOT"
    /\ Len(heap[ret.val.node].inputs) = 2
    /\ TrueInputs(ret.val.node) = {2}
    /\ ret.val.result

(* --------------------------------- XOR --------------------------------- *)

\* C13: an XOR node can be created, and compute() of an XOR node is true iff
\* an odd number of its inputs hold true.
C13_XorIsParity ==
    /\ (ret.op = "createNode" /\ ret.val = "XOR") =>
          (~ret.raised /\ \E i \in 1..Len(nodes) : heap[nodes[i]].type = "XOR")
    /\ \A i \in 1..Len(nodes) :
          heap[nodes[i]].type = "XOR" =>
              compute(heap, nodes[i]) = (Cardinality(TrueInputs(nodes[i])) % 2 = 1)

(* ------------------------ the synthesized circuit ---------------------- *)

\* the number of nodes of a class in the circuit
CountOf(type) == Len(getNodesByType(This, type))

\* the row indices (from 0) at which the function is true: the minterms
TrueRows == {i \in 0..(Pow2(inputCount) - 1) : outputs[i + 1]}

\* the zero bits of the minterm indices, as pairs <<row index, bit place>>
ZeroBits == {p \in TrueRows \X (0..(inputCount - 1)) : Bit(p[1], p[2]) = 0}

\* C14: generateCircuit(n, outputs) with k true entries, k = 0 included, holds
\* n INPUT nodes, k AND gates, one OR gate, one OUTPUT node and one NOT gate
\* per zero bit of each minterm index.
C14_GateCountLaw ==
    ret.op = "generateCircuit" =>
        /\ CountOf("INPUT") = inputCount
        /\ CountOf("AND") = Cardinality(TrueRows)
        /\ CountOf("OR") = 1
        /\ CountOf("OUTPUT") = 1
        /\ CountOf("NOT") = Cardinality(ZeroBits)
        /\ CountOf("NOT") <= Cardinality(TrueRows) * inputCount

\* C14 amended: the law as stated for k >= 1; for k = 0 the circuit holds the
\* n INPUT nodes, one OUTPUT node and no gate, the OR gate included.
C14_GateCountLawAmended ==
    ret.op = "generateCircuit" =>
        /\ CountOf("INPUT") = inputCount
        /\ CountOf("AND") = Cardinality(TrueRows)
        /\ CountOf("OR") = (IF TrueRows = {} THEN 0 ELSE 1)
        /\ CountOf("OUTPUT") = 1
        /\ CountOf("NOT") = Cardinality(ZeroBits)
        /\ CountOf("NOT") <= Cardinality(TrueRows) * inputCount
        /\ Len(nodes) = CountOf("INPUT") + CountOf("AND") + CountOf("OR")
                          + CountOf("OUTPUT") + CountOf("NOT")

\* C14 witness: synthesized for two inputs and the three minterms 0, 1 and 2,
\* which have four zero bits between them
C14_Witness ==
    /\ ret.op = "generateCircuit"
    /\ inputCount = 2
    /\ TrueRows = {0, 1, 2}
    /\ CountOf("NOT") = 4
    /\ CountOf("AND") = 3

\* C15: a circuit made by generateCircuit has no directed cycle: evaluate()
\* on it does not raise, and getTruthTable() on it returns the 2^n rows, never
\* the empty table of a failed evaluation.
C15_SynthesizedIsAcyclic ==
    ret.op # "new" =>
        /\ ~HasCycle(This)
        /\ ret.op = "evaluate" => ~ret.raised
        /\ ret.op = "getTruthTable" => Len(ret.val) = Pow2(inputCount)

\* C15 witness: the table of a synthesized circuit of two inputs with NOT
\* gates, AND gates, the OR gate and the OUTPUT node was returned
C15_Witness ==
    /\ ret.op = "getTruthTable"
    /\ inputCount = 2
    /\ CountOf("NOT") >= 2
    /\ CountOf("AND") >= 2
    /\ Len(ret.val) = 4

\* C16: the circuit generateCircuit makes of an all-false outputs vector has
\* one OUTPUT node, which has no input edge and holds false after evaluate()
\* under every assignment of the INPUT nodes.
C16_AllFalseIsConstantFalse ==
    (ret.op # "new" /\ TrueRows = {}) =>
        /\ CountOf("OUTPUT") = 1
        /\ heap[OutputNode].inputs = <<>>
        /\ ret.op = "evaluate" => (~ret.raised /\ ~heap[OutputNode].value)

\* C16 witness: the circuit of the all-false vector of two inputs was
\* evaluated with both INPUT nodes true
C16_Witness ==
    /\ ret.op = "evaluate"
    /\ inputCount = 2
    /\ TrueRows = {}
    /\ \A i \in 0..1 : heap[Get(This, InputId(i))].value
    /\ ~heap[OutputNode].value

(* ------------------------- evaluate(), repeated ------------------------ *)

\* C17: evaluate() called right after an evaluate() that returned, with no
\* INPUT value and no edge changed in between, returns too and leaves every
\* node with the value the first call gave it.
C17_EvaluateIsIdempotent ==
    [][(ret.op = "evaluate" /\ ~ret.raised /\ ret'.op = "evaluate") =>
            (~ret'.raised /\ heap' = heap /\ nodes' = nodes)]_vars

\* C17 witness: evaluated, on a chain INPUT -> NOT -> OUTPUT inserted against
\* the direction of its edges, the INPUT false and the OUTPUT true
C17_Witness ==
    /\ ret.op = "evaluate"
    /\ ~ret.raised
    /\ Len(nodes) = 3
    /\ heap[nodes[1]].type = "OUTPUT" /\ heap[nodes[1]].inputs = <<nodes[2]>>
    /\ heap[nodes[2]].type = "NOT" /\ heap[nodes[2]].inputs = <<nodes[3]>>
    /\ heap[nodes[3]].type = "INPUT" /\ ~heap[nodes[3]].value
    /\ heap[nodes[1]].value

(* ------------------------------ removeNode ----------------------------- *)

\* a list without the places that hold x
Without(s, x) == SelectSeq(s, LAMBDA y : y # x)

\* C18: removeNode(id) of a present id takes the node out of the Map and out
\* of the inputs and outputs of every other node, a self-loop or not, and
\* leaves the other nodes' edges among themselves and every value as they
\* were; removeNode(id) of an absent id changes nothing.
C18_RemoveNodeFrame ==
    [][\A id \in Ids : RemoveNode(id) =>
          IF Get(This, id) = Null
          THEN heap' = heap /\ nodes' = nodes
          ELSE /\ nodes' = Without(nodes, Get(This, id))
               /\ id \notin Keys(Circ(heap', nodes'))
               /\ DOMAIN heap' = DOMAIN heap \ {Get(This, id)}
               /\ \A h \in DOMAIN heap' :
                     /\ heap'[h].inputs = Without(heap[h].inputs, Get(This, id))
                     /\ heap'[h].outputs = Without(heap[h].outputs, Get(This, id))
                     /\ heap'[h].value = heap[h].value
                     /\ heap'[h].id = heap[h].id]_vars

\* C18 witness: the first node was removed, and of the two nodes left one
\* holds true and feeds the other, which holds false
C18_Witness ==
    /\ ret.op = "removeNode"
    /\ Len(nodes) = 2
    /\ heap[nodes[1]].id = IdOf(2)
    /\ heap[nodes[1]].value /\ ~heap[nodes[2]].value
    /\ heap[nodes[2]].inputs = <<nodes[1]>>

\* the nodes of a class in the circuit, as a set
NodesOf(type) == {nodes[i] : i \in {j \in 1..Len(nodes) : heap[nodes[j]].type = type}}

\* C19: in a synthesized circuit with a minterm every AND gate has n inputs,
\* the one for variable b being INPUT_b or a NOT gate fed by INPUT_b, and every
\* NOT gate has one input, an INPUT node, and one output, an AND gate.
C19_LiteralsOfAndGates ==
    (ret.op # "new" /\ TrueRows # {}) =>
        /\ \A a \in NodesOf("AND") :
              /\ Len(heap[a].inputs) = inputCount
              /\ \A b \in 0..(inputCount - 1) :
                    \/ heap[a].inputs[b + 1] = Get(This, InputId(b))
                    \/ /\ heap[a].inputs[b + 1] \in NodesOf("NOT")
                       /\ heap[heap[a].inputs[b + 1]].inputs = <<Get(This, InputId(b))>>
        /\ \A x \in NodesOf("NOT") :
              /\ Len(heap[x].inputs) = 1
              /\ heap[x].inputs[1] \in NodesOf("INPUT")
              /\ Len(heap[x].outputs) = 1
              /\ heap[x].outputs[1] \in NodesOf("AND")

\* C19 witness: synthesized for two inputs and the minterms 0 and 1, which
\* both negate INPUT_0: three NOT gates, two of them fed by INPUT_0
C19_Witness ==
    /\ ret.op = "generateCircuit"
    /\ inputCount = 2
    /\ TrueRows = {0, 1}
    /\ Cardinality(NodesOf("NOT")) = 3
    /\ Len(heap[Get(This, InputId(0))].outputs) = 2

(* ------------------------ the order, determined ------------------------ *)

\* the node a returned order places last among the inputs of x
LastInput(x) ==
    CHOOSE p \in {heap[x].inputs[i] : i \in 1..Len(heap[x].inputs)} :
        \A i \in 1..Len(heap[x].inputs) :
            PlaceOf(ret.val, heap[x].inputs[i]) <= PlaceOf(ret.val, p)

\* the moment x became ready: at the start for a node without inputs, else
\* when the last of its inputs was placed
ReadyAt(x) == IF heap[x].inputs = <<>> THEN 0 ELSE PlaceOf(ret.val, LastInput(x))

\* the rank of x among the nodes ready at the same moment: its place in the
\* Map's insertion order at the start, else in the outputs of its last input
RankAt(x) ==
    IF heap[x].inputs = <<>> THEN PlaceOf(nodes, x)
    ELSE PlaceOf(heap[LastInput(x)].outputs, x)

\* the nodes of in-degree zero of a list, in the order of the list
Sources(s) == SelectSeq(s, LAMBDA x : heap[x].inputs = <<>>)

\* C20: the order getEvaluationOrder() returns is fixed by the build sequence
\* alone, through the Map's insertion order and the order of the outputs
\* arrays: nodes appear by the moment they became ready and, ready at the same
\* moment, by insertion order; so the nodes of in-degree zero come in
\* node-insertion order, ahead of any node they feed.
C20_OrderIsDetermined ==
    (ret.op = "getEvaluationOrder" /\ ~ret.raised) =>
        /\ \A i \in 1..Len(ret.val) : \A j \in (i + 1)..Len(ret.val) :
              \/ ReadyAt(ret.val[i]) < ReadyAt(ret.val[j])
              \/ /\ ReadyAt(ret.val[i]) = ReadyAt(ret.val[j])
                 /\ RankAt(ret.val[i]) < RankAt(ret.val[j])
        /\ Sources(ret.val) = Sources(nodes)
        /\ \A i \in 1..Len(ret.val) :
              heap[ret.val[i]].inputs = <<>> =>
                  \A k \in 1..Len(heap[ret.val[i]].outputs) :
                      i < PlaceOf(ret.val, heap[ret.val[i]].outputs[k])

\* C20 witness: an order of three nodes was returned, two of them of
\* in-degree zero and both feeding the node inserted first
C20_Witness ==
    /\ ret.op = "getEvaluationOrder"
    /\ ~ret.raised
    /\ Len(nodes) = 3
    /\ heap[nodes[1]].inputs = <<nodes[3], nodes[2]>>
    /\ ret.val = <<nodes[2], nodes[3], nodes[1]>>

(* ----------------------- the order after an overwrite ------------------ *)

\* C21: the order getEvaluationOrder() returns holds only nodes the Map
\* stores, also after addNode replaced a node under its id: a replaced node is
\* not in the order, so that evaluate() would not write to it.
C21_OrderHoldsMembersOnly ==
    (ret.op = "getEvaluationOrder" /\ ~ret.raised) =>
        \A i \in 1..Len(ret.val) : Includes(nodes, ret.val[i])

(* ------------------ the table of a synthesized circuit ----------------- *)

\* C22: the output recorded in row i of the truth table of
\* generateCircuit(n, outputs) is outputs[r], r being i with its n bits
\* written in reverse order.
C22_TableIsBitReversed ==
    ret.op = "getTruthTable" =>
        /\ Len(ret.val) = Pow2(inputCount)
        /\ \A i \in 0..(Pow2(inputCount) - 1) :
              OutputOfRow(ret.val[i + 1]) = outputs[ReverseBits(i, inputCount) + 1]

\* C22 witness: the table of the function of three inputs that is true at
\* index 1 alone records true in row 4 alone
C22_Witness ==
    /\ ret.op = "getTruthTable"
    /\ inputCount = 3
    /\ TrueRows = {1}
    /\ \A i \in 0..7 : OutputOfRow(ret.val[i + 1]) = (i = 4)

(* -------------------- what getTruthTable() leaves ---------------------- *)

\* C23: after getTruthTable() returned a table with rows for a circuit with
\* an INPUT node, every INPUT node holds true and every other node holds the
\* value computed for the last row, which is the row of the all-true inputs.
C23_TableLeavesLastRow ==
    (ret.op = "getTruthTable" /\ ret.val # <<>> /\ Len(InputNodes) >= 1) =>
        /\ \A i \in 1..Len(nodes) :
              IF heap[nodes[i]].type = "INPUT"
              THEN heap[nodes[i]].value
              ELSE heap[nodes[i]].value = compute(heap, nodes[i])
        /\ \A i \in 1..Len(nodes) :
              /\ heap[nodes[i]].type = "INPUT" =>
                    ret.val[Len(ret.val)].inputs[heap[nodes[i]].id]
              /\ heap[nodes[i]].type = "OUTPUT" =>
                    ret.val[Len(ret.val)].outputs[heap[nodes[i]].id]
                        = heap[nodes[i]].value

\* C23 witness: the table of two INPUT nodes feeding an OUTPUT-less AND gate
\* was returned, and all three nodes hold true
C23_Witness ==
    /\ ret.op = "getTruthTable"
    /\ Len(ret.val) = 4
    /\ Len(nodes) = 3
    /\ \E i \in 1..3 : heap[nodes[i]].type = "AND" /\ Len(heap[nodes[i]].inputs) = 2
    /\ \A i \in 1..3 : heap[nodes[i]].value

(* ------------------------- feedback in the editor ---------------------- *)

\* no node of a heap is its own input
NoSelfLoop(hp) == \A h \in DOMAIN hp : ~Includes(hp[h].inputs, h)

\* the nodes that are not INPUT nodes hold in heap' the values they hold in heap
GateValuesKept ==
    \A h \in DOMAIN heap :
        heap[h].type # "INPUT" => (h \in DOMAIN heap' /\ heap'[h].value = heap[h].value)

\* C24: in the editor a wire-end event never makes a self-loop, while a wire
\* between two nodes is kept, also when it closes a feedback loop; a cyclic
\* circuit stays cyclic under every event but clearAll and loadCircuit, and
\* every updateSimulation on it shows the feedback-loop error and leaves the
\* values of the gates and OUTPUT nodes as they were.
C24_EditorKeepsFeedbackLoops ==
    [][/\ NoSelfLoop(heap')
       /\ \A fromId \in Keys(This), toId \in Keys(This) :
             (WireEnd(fromId, toId) /\ fromId # toId) =>
                 /\ Includes(heap'[Get(This, toId)].inputs, Get(This, fromId))
                 /\ HasCycle(Circ(heap', nodes')) =>
                       /\ ret'.val = "Error: Feedback Loop Detected!"
                       /\ \A h \in DOMAIN heap : heap'[h].value = heap[h].value
       /\ (HasCycle(This) /\ ret'.op \notin {"loadCircuit", "clearAll"}) =>
             HasCycle(Circ(heap', nodes'))
       /\ (HasCycle(This) /\ ret'.op = "click") =>
             /\ ret'.val = "Error: Feedback Loop Detected!"
             /\ GateValuesKept]_vars

\* C24 witness: an INPUT node was clicked to true in a circuit where it feeds
\* a gate on a feedback loop of two gates; the error is shown and the gate
\* still holds false
C24_Witness ==
    /\ ret.op = "click"
    /\ ret.val = "Error: Feedback Loop Detected!"
    /\ HasCycle(This)
    /\ \E i \in 1..Len(nodes) : \E j \in 1..Len(nodes) :
          /\ heap[nodes[i]].type = "INPUT" /\ heap[nodes[i]].value
          /\ heap[nodes[j]].type = "OR" /\ ~heap[nodes[j]].value
          /\ Includes(heap[nodes[j]].inputs, nodes[i])

====
